---- MODULE Spec2Model ----
(***************************************************************************)
(* Buddy page allocator of StACSOS (page_allocator_buddy).                 *)
(*                                                                         *)
(* The operations are those of the revision in src/unnamed/part_000, the   *)
(* one with the assertions in place; page-allocator-buddy.cpp holds two    *)
(* earlier drafts of the same functions.                                   *)
(*                                                                         *)
(* The allocator state is modelled at the level of the fields the code     *)
(* reads and writes: the array of list heads free_list_, and per page      *)
(* descriptor the link next_free_, the tag state_ and the bookkeeping      *)
(* field free_block_size_, plus the counter total_free_ (a u64, kept as    *)
(* four 16-bit limbs so that its wrap-around at 2^64 is the code's).       *)
(* A page pointer is the page's frame number; nullptr is -1.  An assert    *)
(* that fails halts the kernel: the record keeps what had been written up  *)
(* to that point and fault = "assert".                                     *)
(***************************************************************************)
EXTENDS Integers, Sequences, FiniteSets, TLC

\* ---------------------------------------------------------------- bounds
\* Number of public operations in a run.
MaxOps == 4
\* Number of insert_pages and remove_pages calls among them: at most half.
MaxRangeOps == MaxOps \div 2

\* ------------------------------------------------------------- constants
\* page_allocator_buddy::LastOrder, the value of the specification's scenarios.
LastOrder == 3

Orders == 0..LastOrder

\* u64 pages_per_block(int order): 1 << order.
pages_per_block(order) ==
    2 ^ order

\* bool block_aligned(int order, u64 pfn): !(pfn & (pages_per_block(order) - 1)).
block_aligned(order, pfn) ==
    pfn % pages_per_block(order) = 0

\* The page registry holds the frames of one naturally aligned block of the top
\* order, so that the buddy of every frame at every order below LastOrder is a
\* frame of the registry.
NumFrames == pages_per_block(LastOrder)
Frames == 0..(NumFrames - 1)

nullptr == 0 - 1

\* pfn ^ pages_per_block(order): flips bit `order` of pfn.
BuddyPfn(pfn, order) ==
    IF (pfn \div pages_per_block(order)) % 2 = 0
      THEN pfn + pages_per_block(order)
      ELSE pfn - pages_per_block(order)

\* ------------------------------------------------------------ u64 values
Limb == 2 ^ 16

\* The u64 with value n, for 0 <= n < 2^31.
U64(n) ==
    <<n % Limb, n \div Limb, 0, 0>>

\* u64 += n, for 0 <= n < Limb, modulo 2^64.
U64Add(v, n) ==
    LET s1 == v[1] + n
        s2 == v[2] + (s1 \div Limb)
        s3 == v[3] + (s2 \div Limb)
        s4 == v[4] + (s3 \div Limb)
    IN  <<s1 % Limb, s2 % Limb, s3 % Limb, s4 % Limb>>

\* u64 -= n, for 0 <= n < Limb, modulo 2^64.
U64Sub(v, n) ==
    LET d1 == v[1] - n
        b1 == IF d1 < 0 THEN 1 ELSE 0
        d2 == v[2] - b1
        b2 == IF d2 < 0 THEN 1 ELSE 0
        d3 == v[3] - b2
        b3 == IF d3 < 0 THEN 1 ELSE 0
        d4 == v[4] - b3
    IN  <<d1 % Limb, d2 % Limb, d3 % Limb, d4 % Limb>>

\* ------------------------------------------------- free-list primitives
\* A slot is a `page **`: the head of a list or the link of a page.
Deref(a, slot) ==
    IF slot[1] = "head" THEN a.free_list_[slot[2]] ELSE a.next_free_[slot[2]]

Store(a, slot, v) ==
    IF slot[1] = "head"
      THEN [a EXCEPT !.free_list_[slot[2]] = v]
      ELSE [a EXCEPT !.next_free_[slot[2]] = v]

Panic(a) ==
    [a EXCEPT !.fault = "assert"]

\* The scan that stops at once: the new block is linked at the list head.
InsertSlot_front(a, slot, target, fuel) ==
    slot

\* while (*slot && *slot < target) slot = &((*slot)->next_free_);
\* a chain that never ends the loop is reported as the slot <<"loop", 0>>.
RECURSIVE InsertSlot(_, _, _, _)
InsertSlot(a, slot, target, fuel) ==
    IF Deref(a, slot) = nullptr \/ ~(Deref(a, slot) < target) THEN slot
    ELSE IF fuel = 0 THEN <<"loop", 0>>
    ELSE InsertSlot(a, <<"next", Deref(a, slot)>>, target, fuel - 1)

\* insert_free_block without the assert on the block's alignment.
insert_free_block_unaligned(a, order, block_start) ==
    IF a.fault # "none" THEN a
    ELSE IF ~(order >= 0 /\ order <= LastOrder) THEN Panic(a)
    ELSE LET slot == InsertSlot(a, <<"head", order>>, block_start, NumFrames)
         IN  IF slot[1] = "loop" THEN [a EXCEPT !.fault = "loop"]
             ELSE IF Deref(a, slot) = block_start THEN Panic(a)
             ELSE Store([a EXCEPT !.next_free_[block_start] = Deref(a, slot)],
                        slot, block_start)

insert_free_block(a, order, block_start) ==
    IF a.fault # "none" THEN a
    ELSE IF ~(order >= 0 /\ order <= LastOrder) THEN Panic(a)
    ELSE IF ~block_aligned(order, block_start) THEN Panic(a)
    ELSE LET slot == InsertSlot(a, <<"head", order>>, block_start, NumFrames)
         IN  IF slot[1] = "loop" THEN [a EXCEPT !.fault = "loop"]
             ELSE IF Deref(a, slot) = block_start THEN Panic(a)
             ELSE Store([a EXCEPT !.next_free_[block_start] = Deref(a, slot)],
                        slot, block_start)

\* while (*candidate_slot && *candidate_slot != target) candidate_slot = ...
RECURSIVE CandidateSlot(_, _, _, _)
CandidateSlot(a, slot, target, fuel) ==
    IF Deref(a, slot) = nullptr \/ Deref(a, slot) = target THEN slot
    ELSE IF fuel = 0 THEN <<"loop", 0>>
    ELSE CandidateSlot(a, <<"next", Deref(a, slot)>>, target, fuel - 1)

\* remove_free_block that returns when the block is not in the list, as the
\* draft that logs the error does.
remove_free_block_logged(a, order, block_start) ==
    IF a.fault # "none" THEN a
    ELSE IF ~(order >= 0 /\ order <= LastOrder) THEN Panic(a)
    ELSE IF ~block_aligned(order, block_start) THEN Panic(a)
    ELSE LET slot == CandidateSlot(a, <<"head", order>>, block_start, NumFrames)
         IN  IF slot[1] = "loop" THEN [a EXCEPT !.fault = "loop"]
             ELSE IF Deref(a, slot) # block_start THEN a
             ELSE LET b == Store(a, slot, a.next_free_[block_start])
                  IN  [b EXCEPT !.next_free_[block_start] = nullptr]

remove_free_block(a, order, block_start) ==
    IF a.fault # "none" THEN a
    ELSE IF ~(order >= 0 /\ order <= LastOrder) THEN Panic(a)
    ELSE IF ~block_aligned(order, block_start) THEN Panic(a)
    ELSE LET slot == CandidateSlot(a, <<"head", order>>, block_start, NumFrames)
         IN  IF slot[1] = "loop" THEN [a EXCEPT !.fault = "loop"]
             ELSE IF Deref(a, slot) # block_start THEN Panic(a)
             ELSE LET b == Store(a, slot, a.next_free_[block_start])
                  IN  [b EXCEPT !.next_free_[block_start] = nullptr]

\* ------------------------------------------------------- split and merge
\* split_block that leaves the block in free list `order`.
split_block_keep(a, order, block_start) ==
    IF a.fault # "none" THEN a
    ELSE IF ~(order > 0 /\ order <= LastOrder) THEN Panic(a)
    ELSE insert_free_block(
             insert_free_block(a, order - 1, block_start),
             order - 1, block_start + pages_per_block(order - 1))

\* split_block that links only the upper half into free list `order - 1`.
split_block_upper(a, order, block_start) ==
    IF a.fault # "none" THEN a
    ELSE IF ~(order > 0 /\ order <= LastOrder) THEN Panic(a)
    ELSE insert_free_block(remove_free_block(a, order, block_start),
                           order - 1, block_start + pages_per_block(order - 1))

split_block(a, order, block_start) ==
    IF a.fault # "none" THEN a
    ELSE IF ~(order > 0 /\ order <= LastOrder) THEN Panic(a)
    ELSE LET lower_order == order - 1
             block_size == pages_per_block(lower_order)
             buddy1 == block_start
             buddy2 == buddy1 + block_size
         IN  insert_free_block(
                 insert_free_block(remove_free_block(a, order, block_start),
                                   lower_order, buddy1),
                 lower_order, buddy2)

\* merge_buddies that leaves block_start linked in free list `order`.
merge_buddies_linked(a, order, block_start) ==
    IF a.fault # "none" THEN a
    ELSE IF ~(order >= 0 /\ order < LastOrder) THEN Panic(a)
    ELSE LET buddy == BuddyPfn(block_start, order)
             merged_block == IF buddy < block_start THEN buddy ELSE block_start
         IN  IF a.state_[buddy] = "free" /\ block_aligned(order, buddy)
               THEN insert_free_block(remove_free_block(a, order, buddy),
                                      order + 1, merged_block)
               ELSE a

merge_buddies(a, order, block_start) ==
    IF a.fault # "none" THEN a
    ELSE IF ~(order >= 0 /\ order < LastOrder) THEN Panic(a)
    ELSE LET buddy == BuddyPfn(block_start, order)
             merged_block == IF buddy < block_start THEN buddy ELSE block_start
         IN  IF a.state_[buddy] = "free" /\ block_aligned(order, buddy)
               THEN insert_free_block(
                        remove_free_block(
                            remove_free_block(a, order, block_start),
                            order, buddy),
                        order + 1, merged_block)
               ELSE a

\* ------------------------------------------------------ allocate and free
\* The scan stopping one order early: current_order < LastOrder.
RECURSIVE ScanOrder_short(_, _)
ScanOrder_short(a, current_order) ==
    IF current_order < LastOrder /\ a.free_list_[current_order] = nullptr
      THEN ScanOrder_short(a, current_order + 1)
      ELSE current_order

\* while (current_order <= LastOrder && !free_list_[current_order]) current_order++;
RECURSIVE ScanOrder(_, _)
ScanOrder(a, current_order) ==
    IF current_order <= LastOrder /\ a.free_list_[current_order] = nullptr
      THEN ScanOrder(a, current_order + 1)
      ELSE current_order

\* while (current_order > order) { split_block(current_order, *free_list_[current_order]); current_order--; }
RECURSIVE SplitDown(_, _, _)
SplitDown(a, current_order, order) ==
    IF a.fault # "none" THEN a
    ELSE IF current_order > order
      THEN IF a.free_list_[current_order] = nullptr
             THEN [a EXCEPT !.fault = "nullptr"]
             ELSE SplitDown(split_block(a, current_order, a.free_list_[current_order]),
                            current_order - 1, order)
      ELSE a

\* allocate_pages that serves an order outside [0, LastOrder] as the nearest
\* valid order.
allocate_pages_clamped(a, order) ==
    LET o == IF order < 0 THEN 0 ELSE IF order > LastOrder THEN LastOrder ELSE order
        current_order == ScanOrder(a, o)
    IN  IF current_order > LastOrder THEN [a |-> a, ret |-> nullptr]
        ELSE LET b == SplitDown(a, current_order, o)
                 allocated_block == b.free_list_[o]
                 c == remove_free_block(b, o, allocated_block)
             IN  IF b.fault # "none" THEN [a |-> b, ret |-> nullptr]
                 ELSE IF allocated_block = nullptr
                   THEN [a |-> [b EXCEPT !.fault = "nullptr"], ret |-> nullptr]
                 ELSE IF c.fault # "none" THEN [a |-> c, ret |-> nullptr]
                 ELSE [a |-> [c EXCEPT !.state_[allocated_block] = "allocated",
                                       !.total_free_ = U64Sub(@, pages_per_block(o))],
                       ret |-> allocated_block]

\* allocate_pages that returns the head of free list `order` without
\* unlinking it.
allocate_pages_listed(a, order) ==
    IF order < 0 \/ order > LastOrder THEN [a |-> a, ret |-> nullptr]
    ELSE LET current_order == ScanOrder(a, order)
         IN  IF current_order > LastOrder THEN [a |-> a, ret |-> nullptr]
             ELSE LET b == SplitDown(a, current_order, order)
                      allocated_block == b.free_list_[order]
                  IN  IF b.fault # "none" THEN [a |-> b, ret |-> nullptr]
                      ELSE IF allocated_block = nullptr
                        THEN [a |-> [b EXCEPT !.fault = "nullptr"], ret |-> nullptr]
                      ELSE [a |-> [b EXCEPT !.state_[allocated_block] = "allocated",
                                            !.total_free_ = U64Sub(@, pages_per_block(order))],
                            ret |-> allocated_block]

\* The allocator after the call, and the pointer the call returns.
allocate_pages(a, order) ==
    IF order < 0 \/ order > LastOrder THEN [a |-> a, ret |-> nullptr]
    ELSE LET current_order == ScanOrder(a, order)
         IN  IF current_order > LastOrder THEN [a |-> a, ret |-> nullptr]
             ELSE LET b == SplitDown(a, current_order, order)
                      allocated_block == b.free_list_[order]
                      c == remove_free_block(b, order, allocated_block)
                  IN  IF b.fault # "none" THEN [a |-> b, ret |-> nullptr]
                      ELSE IF allocated_block = nullptr
                        THEN [a |-> [b EXCEPT !.fault = "nullptr"], ret |-> nullptr]
                      ELSE IF c.fault # "none" THEN [a |-> c, ret |-> nullptr]
                      ELSE [a |-> [c EXCEPT !.state_[allocated_block] = "allocated",
                                            !.total_free_ = U64Sub(@, pages_per_block(order))],
                            ret |-> allocated_block]

\* while (order < LastOrder) { ... merge_buddies(order, block_start); order++; }
RECURSIVE MergeLoop(_, _, _)
MergeLoop(a, block_start, order) ==
    IF a.fault # "none" THEN a
    ELSE IF order < LastOrder
      THEN LET buddy == BuddyPfn(block_start, order)
           IN  IF a.state_[buddy] # "free" \/ ~block_aligned(order, buddy)
                 THEN a
                 ELSE MergeLoop(merge_buddies(a, order, block_start), block_start, order + 1)
      ELSE a

free_pages(a, block_start, order) ==
    IF ~(order >= 0 /\ order <= LastOrder) THEN Panic(a)
    ELSE LET b == insert_free_block([a EXCEPT !.state_[block_start] = "free"],
                                    order, block_start)
         IN  IF b.fault # "none" THEN b
             ELSE MergeLoop([b EXCEPT !.total_free_ = U64Add(@, pages_per_block(order))],
                            block_start, order)

\* ------------------------------------------------- range insert / remove
\* The order search with the test that the block fits in the range left out.
RECURSIVE GrowOrder_nofit(_, _, _, _)
GrowOrder_nofit(order, max_block_size, start_pfn, end_pfn) ==
    IF block_aligned(order, start_pfn) /\ order < LastOrder
      THEN GrowOrder_nofit(order + 1, max_block_size * 2, start_pfn, end_pfn)
      ELSE <<order, max_block_size>>

\* while ((start_pfn + max_block_size <= end_pfn) && block_aligned(order, start_pfn)
\*        && order < LastOrder) { order++; max_block_size <<= 1; }
RECURSIVE GrowOrder(_, _, _, _)
GrowOrder(order, max_block_size, start_pfn, end_pfn) ==
    IF (start_pfn + max_block_size <= end_pfn) /\ block_aligned(order, start_pfn)
       /\ order < LastOrder
      THEN GrowOrder(order + 1, max_block_size * 2, start_pfn, end_pfn)
      ELSE <<order, max_block_size>>

RECURSIVE InsertLoop(_, _, _)
InsertLoop(a, start_pfn, end_pfn) ==
    IF a.fault # "none" THEN a
    ELSE IF start_pfn < end_pfn
      THEN LET g == GrowOrder(0, 1, start_pfn, end_pfn)
               order == g[1] - 1
               max_block_size == g[2] \div 2
               b == [a EXCEPT !.free_block_size_[start_pfn] = max_block_size]
           IN  InsertLoop(insert_free_block(b, order, start_pfn),
                          start_pfn + max_block_size, end_pfn)
      ELSE a

insert_pages(a, range_start, page_count) ==
    InsertLoop(a, range_start, range_start + page_count)

\* The order computed with <= in place of <.
RECURSIVE SizeOrder_leq(_, _)
SizeOrder_leq(order, block_size) ==
    IF pages_per_block(order) <= block_size THEN SizeOrder_leq(order + 1, block_size)
    ELSE order

\* while ((1ULL << order) < block_size) order++;
RECURSIVE SizeOrder(_, _)
SizeOrder(order, block_size) ==
    IF pages_per_block(order) < block_size THEN SizeOrder(order + 1, block_size)
    ELSE order

\* while (order <= LastOrder && !block_aligned(order, start_pfn)) order++;
RECURSIVE AlignOrder(_, _)
AlignOrder(order, start_pfn) ==
    IF order <= LastOrder /\ ~block_aligned(order, start_pfn)
      THEN AlignOrder(order + 1, start_pfn)
      ELSE order

RECURSIVE RemoveLoop(_, _, _)
RemoveLoop(a, start_pfn, end_pfn) ==
    IF a.fault # "none" THEN a
    ELSE IF start_pfn < end_pfn
      THEN LET block_size == a.free_block_size_[start_pfn]
               order == IF block_size > 0 THEN SizeOrder(0, block_size)
                        ELSE AlignOrder(0, start_pfn)
           IN  IF ~(order <= LastOrder) THEN Panic(a)
               ELSE RemoveLoop(remove_free_block(a, order, start_pfn),
                               start_pfn + pages_per_block(order), end_pfn)
      ELSE a

remove_pages(a, range_start, page_count) ==
    RemoveLoop(a, range_start, range_start + page_count)

\* ------------------------------------------------------------ the machine
VARIABLES
    free_list_,         \* page *free_list_[LastOrder + 1]
    next_free_,         \* page::next_free_, per frame
    state_,             \* page::state_, per frame
    free_block_size_,   \* page::free_block_size_, per frame
    total_free_,        \* u64 total_free_
    fault,              \* "none", or why the kernel halted inside a call
    allocated,          \* the caller's outstanding blocks: <<frame, order>>
    last,               \* the last public call, its arguments and its result
    nops,               \* number of public calls made
    nrange              \* number of insert_pages and remove_pages calls made

vars == <<free_list_, next_free_, state_, free_block_size_, total_free_, fault,
          allocated, last, nops, nrange>>

\* The allocator and the page descriptors as one record.
Cur ==
    [free_list_ |-> free_list_, next_free_ |-> next_free_, state_ |-> state_,
     free_block_size_ |-> free_block_size_, total_free_ |-> total_free_,
     fault |-> fault]

\* The heads linked from p on, in list order (at most fuel of them).
RECURSIVE Chain(_, _, _)
Chain(a, p, fuel) ==
    IF p = nullptr \/ fuel = 0 THEN <<>>
    ELSE <<p>> \o Chain(a, a.next_free_[p], fuel - 1)

\* Free list `order` as the sequence of its block heads.
ListOf(a, order) ==
    Chain(a, a.free_list_[order], NumFrames + 1)

Range(q) ==
    {q[i] : i \in DOMAIN q}

\* The frames of the block of `order` whose head is frame b.
BlockFrames(b, order) ==
    b..(b + pages_per_block(order) - 1)

\* The frames some block of some free list covers.
FreeFrames(a) ==
    UNION {UNION {BlockFrames(b, o) : b \in Range(ListOf(a, o))} : o \in Orders}

AllocatedFrames ==
    UNION {BlockFrames(h[1], h[2]) : h \in allocated}

\* The frames that are in a free block or in a block handed out.
ManagedFrames ==
    FreeFrames(Cur) \cup AllocatedFrames

\* insert_pages(range_start, page_count) is legal: no frame of the range is in
\* a free block or in a block handed out.
InsertLegal(range_start, page_count) ==
    range_start..(range_start + page_count - 1) \cap ManagedFrames = {}

\* The page descriptors are created zeroed by the page registry; which
\* enumerator of page_state is zero is not fixed by the allocator.
Init ==
    /\ free_list_ = [o \in Orders |-> nullptr]
    /\ next_free_ = [f \in Frames |-> nullptr]
    /\ \E tag \in {"free", "allocated"} : state_ = [f \in Frames |-> tag]
    /\ free_block_size_ = [f \in Frames |-> 0]
    /\ total_free_ = U64(0)
    /\ fault = "none"
    /\ allocated = {}
    /\ last = [op |-> "init", x |-> 0, y |-> 0, ret |-> nullptr]
    /\ nops = 0
    /\ nrange = 0

\* The call `op(x, y)` took the allocator from Cur to b and returned ret.
Becomes(b, op, x, y, ret) ==
    /\ free_list_' = b.free_list_
    /\ next_free_' = b.next_free_
    /\ state_' = b.state_
    /\ free_block_size_' = b.free_block_size_
    /\ total_free_' = b.total_free_
    /\ fault' = b.fault
    /\ last' = [op |-> op, x |-> x, y |-> y, ret |-> ret]
    /\ nops' = nops + 1

Running ==
    fault = "none" /\ nops < MaxOps

\* A range of frames that is neither free nor handed out is reported free.
InsertPages(range_start, page_count) ==
    /\ Running
    /\ nrange < MaxRangeOps
    /\ InsertLegal(range_start, page_count)
    /\ LET b == insert_pages(Cur, range_start, page_count)
       IN  Becomes(b, "insert_pages", range_start, page_count, nullptr)
    /\ nrange' = nrange + 1
    /\ UNCHANGED allocated

RemovePages(range_start, page_count) ==
    /\ Running
    /\ nrange < MaxRangeOps
    /\ range_start..(range_start + page_count - 1) \subseteq FreeFrames(Cur)
    /\ LET b == remove_pages(Cur, range_start, page_count)
       IN  Becomes(b, "remove_pages", range_start, page_count, nullptr)
    /\ nrange' = nrange + 1
    /\ UNCHANGED allocated

AllocatePages(order) ==
    /\ Running
    /\ LET r == allocate_pages(Cur, order)
       IN  /\ Becomes(r.a, "allocate_pages", order, 0, r.ret)
           /\ allocated' = IF r.ret = nullptr THEN allocated
                           ELSE allocated \cup {<<r.ret, order>>}
    /\ UNCHANGED nrange

\* The caller frees a block it holds, at the order it was allocated at.
FreePages(block_start, order) ==
    /\ Running
    /\ <<block_start, order>> \in allocated
    /\ LET b == free_pages(Cur, block_start, order)
       IN  Becomes(b, "free_pages", block_start, order, nullptr)
    /\ allocated' = allocated \ {<<block_start, order>>}
    /\ UNCHANGED nrange

Next ==
    \/ \E p \in Frames : \E n \in (IF p = 0 THEN 0 ELSE 1)..(NumFrames - p) : InsertPages(p, n)
    \/ \E p \in Frames : \E n \in 1..(NumFrames - p) : RemovePages(p, n)
    \/ \E order \in (0 - 1)..(LastOrder + 1) : AllocatePages(order)
    \/ \E h \in allocated : FreePages(h[1], h[2])

Spec ==
    Init /\ [][Next]_vars

\* The caller breaks the contract of free_pages: it frees an aligned block of a
\* valid order none of whose frames it holds (the block is in a free list, part
\* of a free block, or was never handed out).
FreePagesUnheld(block_start, order) ==
    /\ Running
    /\ block_aligned(order, block_start)
    /\ BlockFrames(block_start, order) \cap AllocatedFrames = {}
    /\ LET b == free_pages(Cur, block_start, order)
       IN  Becomes(b, "free_pages", block_start, order, nullptr)
    /\ UNCHANGED <<allocated, nrange>>

NextMisuse ==
    \/ Next
    \/ \E block_start \in Frames : \E order \in Orders : FreePagesUnheld(block_start, order)

\* The allocator with callers that may free blocks they do not hold.
SpecMisuse ==
    Init /\ [][NextMisuse]_vars

\* The caller passes free_pages an order outside [0, LastOrder], or a frame that
\* is not aligned to the order.
FreePagesBadArgs(block_start, order) ==
    /\ Running
    /\ IF order \in Orders THEN ~block_aligned(order, block_start) ELSE TRUE
    /\ LET b == free_pages(Cur, block_start, order)
       IN  Becomes(b, "free_pages", block_start, order, nullptr)
    /\ UNCHANGED <<allocated, nrange>>

NextArgs ==
    \/ Next
    \/ \E block_start \in Frames : \E order \in (0 - 1)..(LastOrder + 1) :
           FreePagesBadArgs(block_start, order)

\* The allocator with callers that may pass free_pages a wrong order.
SpecArgs ==
    Init /\ [][NextArgs]_vars

\* ------------------------------------------------------------- the claims
\* The block heads of free list `order`.
Blocks(a, order) ==
    Range(ListOf(a, order))

Lists(a) ==
    [o \in Orders |-> ListOf(a, o)]

RECURSIVE SumPages(_, _)
SumPages(a, order) ==
    IF order > LastOrder THEN 0
    ELSE Len(ListOf(a, order)) * pages_per_block(order) + SumPages(a, order + 1)

\* The last call returned (the kernel did not halt inside it).
Returned(op) ==
    last.op = op /\ fault = "none"

\* C1 (conservation): after any sequence of calls, total_free_ equals the sum
\* over the orders of (length of the free list) * 2^order.
C1_Conservation ==
    fault = "none" => total_free_ = U64(SumPages(Cur, 0))

\* C2 (no overlap): no two blocks present in the free lists, of the same or
\* of different orders, cover a common frame.
C2_NoOverlap ==
    LET ls == Lists(Cur)
    IN  \A o1 \in Orders : \A o2 \in Orders :
            \A i \in DOMAIN ls[o1] : \A j \in DOMAIN ls[o2] :
                <<o1, i>> # <<o2, j>> =>
                    BlockFrames(ls[o1][i], o1) \cap BlockFrames(ls[o2][j], o2) = {}

\* The free block that holds frame f, as the set of its <<head, order>>.
Holding(a, f) ==
    {h \in Frames \X Orders : h[1] \in Blocks(a, h[2]) /\ f \in BlockFrames(h[1], h[2])}

\* C2's case: free_pages has merged the freed block into a block of a higher
\* order while blocks of other orders are in the free lists.
C2_Witness ==
    /\ Returned("free_pages")
    /\ \E h \in Holding(Cur, last.x) : h[2] > last.y
    /\ Cardinality({o \in Orders : Blocks(Cur, o) # {}}) >= 2

\* C3 (merge completeness): when free_pages(block, order) has returned, the
\* free block that holds the freed pages, of order k < LastOrder, does not have
\* its order-k buddy in free list k.
C3_MergeComplete ==
    Returned("free_pages") =>
        \A h \in Holding(Cur, last.x) :
            h[2] < LastOrder => BuddyPfn(h[1], h[2]) \notin Blocks(Cur, h[2])

\* v >= n as u64 values, for 0 <= n < Limb.
U64Geq(v, n) ==
    v[1] >= n \/ v[2] > 0 \/ v[3] > 0 \/ v[4] > 0

\* The step is a call of allocate_pages(order) with a valid order that finds a
\* non-empty free list at an order >= order.
AllocateCase ==
    /\ last'.op = "allocate_pages"
    /\ last'.x \in Orders
    /\ \E k \in last'.x..LastOrder : Blocks(Cur, k) # {}

\* What C4 says of the free lists, the returned block and its page.
AllocateListsEffect ==
    LET order == last'.x
        j == CHOOSE k \in order..LastOrder :
                 Blocks(Cur, k) # {} /\ \A i \in order..(k - 1) : Blocks(Cur, i) = {}
        b == Head(ListOf(Cur, j))
    IN  /\ fault' = "none"
        /\ last'.ret = b
        /\ \A i \in Orders : b \notin Blocks(Cur', i)
        /\ \A i \in Orders :
              Blocks(Cur', i) =
                  IF i = j THEN Blocks(Cur, i) \ {b}
                  ELSE IF order <= i /\ i < j
                    THEN Blocks(Cur, i) \cup {b + pages_per_block(i)}
                  ELSE Blocks(Cur, i)
        /\ state_'[b] = "allocated"

\* What C4 says of total_free_: it has gone down by 2^order.
AllocateTotalEffect ==
    /\ U64Geq(total_free_, pages_per_block(last'.x))
    /\ total_free_' = U64Sub(total_free_, pages_per_block(last'.x))

\* C4 (allocate_pages): with a valid order and a non-empty list at an order
\* >= order, allocate_pages takes the head b of the lowest such list j and
\* returns it; b ends in no list, list i for order <= i < j gains exactly the
\* block at b + 2^i, the other lists are unchanged, b's page is Allocated and
\* total_free_ has decreased by exactly 2^order.
C4_AllocateEffect ==
    [][AllocateCase => AllocateListsEffect /\ AllocateTotalEffect]_vars

\* The largest order <= LastOrder whose block fits in `remaining` pages and
\* to which frame f is aligned.
GreedyOrder(f, remaining) ==
    CHOOSE k \in Orders :
        /\ pages_per_block(k) <= remaining /\ block_aligned(k, f)
        /\ \A m \in Orders :
              pages_per_block(m) <= remaining /\ block_aligned(m, f) => m <= k

\* C5 (greedy decomposition): every block insert_pages(start, count) inserts
\* has the largest order <= LastOrder that fits in the pages remaining from the
\* block's frame to the end of the range and to which that frame is aligned.
C5_GreedyInsert ==
    [][last'.op = "insert_pages" /\ fault' = "none" =>
          \A o \in Orders : \A b \in Blocks(Cur', o) \ Blocks(Cur, o) :
              o = GreedyOrder(b, last'.x + last'.y - b)]_vars

\* C6 (round trip): in every state and for every legal insert_pages(p, n),
\* insert_pages(p, n) followed at once by remove_pages(p, n) returns and leaves
\* total_free_ and every free list (entries and their order) as before.
C6_RoundTrip ==
    fault = "none" =>
        LET managed == ManagedFrames
            before == Lists(Cur)
        IN  \A p \in Frames : \A n \in 0..(NumFrames - p) :
                p..(p + n - 1) \cap managed = {} =>
                    LET b == remove_pages(insert_pages(Cur, p, n), p, n)
                    IN  /\ b.fault = "none"
                        /\ Lists(b) = before
                        /\ b.total_free_ = total_free_

\* C6's case: free and handed-out blocks exist, and a legal range of at least
\* three pages is there whose insertion puts blocks into two free lists.
C6_Witness ==
    /\ fault = "none"
    /\ allocated # {}
    /\ \E o \in Orders : Len(ListOf(Cur, o)) >= 2
    /\ \E p \in Frames : \E n \in 3..(NumFrames - p) :
          /\ InsertLegal(p, n)
          /\ Cardinality({o \in Orders :
                 ListOf(insert_pages(Cur, p, n), o) # ListOf(Cur, o)}) >= 2

\* C7 (scenario A): with LastOrder = 3 and empty lists, insert_pages(frame 0, 8)
\* leaves exactly one block in list 3; allocate_pages(0) then returns frame 0 and
\* leaves list 3 empty, lists 2, 1 and 0 with one entry each, at frames 4, 6 and
\* 7, and total_free_ = 7.
C7_ScenarioA ==
    [][/\ (nops = 0 /\ last'.op = "insert_pages" /\ last'.x = 0 /\ last'.y = 8) =>
              Lists(Cur') = (0 :> <<>> @@ 1 :> <<>> @@ 2 :> <<>> @@ 3 :> <<0>>)
       /\ (/\ nops = 1 /\ last.op = "insert_pages" /\ last.x = 0 /\ last.y = 8
           /\ last'.op = "allocate_pages" /\ last'.x = 0) =>
              /\ last'.ret = 0
              /\ Lists(Cur') = (0 :> <<7>> @@ 1 :> <<6>> @@ 2 :> <<4>> @@ 3 :> <<>>)
              /\ total_free_' = U64(7)]_vars

\* The step is a call of allocate_pages(order) with a valid order while every
\* free list from order up to LastOrder is empty.
ExhaustedCase ==
    /\ last'.op = "allocate_pages"
    /\ last'.x \in Orders
    /\ \A k \in last'.x..LastOrder : Blocks(Cur, k) = {}

\* C8 (exhaustion without merging): allocate_pages(order) with every list from
\* order to LastOrder empty returns nullptr and changes no list, page or
\* counter, also when free buddies of lower orders could be merged; and no call
\* of allocate_pages merges: a block it adds to a list lies inside a block that
\* was free at a higher order.
C8_ExhaustedNoMerge ==
    [][/\ ExhaustedCase => last'.ret = nullptr /\ Cur' = Cur
       /\ last'.op = "allocate_pages" =>
             \A i \in Orders : \A b \in Blocks(Cur', i) \ Blocks(Cur, i) :
                 \E j \in (i + 1)..LastOrder : \E g \in Blocks(Cur, j) :
                     b \in BlockFrames(g, j)]_vars

\* C8's case: allocate_pages(order) has returned nullptr while two free
\* buddies of order - 1 sit in the free list below.
C8_Witness ==
    /\ Returned("allocate_pages")
    /\ last.ret = nullptr
    /\ last.x \in 1..LastOrder
    /\ \E b \in Blocks(Cur, last.x - 1) : BuddyPfn(b, last.x - 1) \in Blocks(Cur, last.x - 1)

\* C9 (scenario B): after scenario A (8 pages inserted at frame 0, frame 0
\* allocated at order 0), free_pages(frame 0, 0) does not merge: frame 0 stays a
\* block of list 0 and total_free_ = 8.
C9_ScenarioB ==
    [][(/\ nops = 2 /\ nrange = 1 /\ allocated = {<<0, 0>>}
        /\ last.op = "allocate_pages" /\ last.x = 0 /\ last.ret = 0
        /\ FreeFrames(Cur) \cup {0} = 0..7
        /\ last'.op = "free_pages" /\ last'.x = 0 /\ last'.y = 0) =>
           /\ fault' = "none"
           /\ 0 \in Blocks(Cur', 0)
           /\ total_free_' = U64(8)]_vars

\* C10 (I4 as a global invariant): between public calls, no free list k with
\* k < LastOrder holds both a block and its order-k buddy.
C10_NoFreeBuddies ==
    fault = "none" =>
        \A k \in 0..(LastOrder - 1) : \A b \in Blocks(Cur, k) :
            BuddyPfn(b, k) \notin Blocks(Cur, k)

\* C11 (double free is fatal): free_pages(block, order) on a block that is not
\* currently allocated halts the kernel and changes no free list, not
\* total_free_ and no page state.
C11_DoubleFreeFatal ==
    [][(/\ last'.op = "free_pages"
        /\ BlockFrames(last'.x, last'.y) \cap AllocatedFrames = {}) =>
           /\ fault' # "none"
           /\ Lists(Cur') = Lists(Cur)
           /\ total_free_' = total_free_
           /\ state_' = state_]_vars

\* The frames of the blocks that are in the free lists of a and not in those of b.
FramesTaken(a, b) ==
    UNION {UNION {BlockFrames(h, o) : h \in Blocks(a, o) \ Blocks(b, o)} : o \in Orders}

\* C12 (remove_pages is exact or fatal): when remove_pages(range_start,
\* page_count) returns, the blocks it has taken out of the free lists cover
\* exactly the page_count frames of the range, and it has added no block; on
\* any range that does not match the boundaries of free blocks it halts.
C12_RemoveExact ==
    [][(last'.op = "remove_pages" /\ fault' = "none") =>
           /\ FramesTaken(Cur, Cur') = last'.x..(last'.x + last'.y - 1)
           /\ \A o \in Orders : Blocks(Cur', o) \subseteq Blocks(Cur, o)]_vars

\* C13 (I6): between public calls, a page that is in a free block or in a
\* block handed out has state_ = allocated exactly when it is in no block of
\* any free list; the head of every block in a free list reads free.
C13_PageState ==
    fault = "none" =>
        LET free == FreeFrames(Cur)
        IN  \A f \in free \cup AllocatedFrames :
                (state_[f] = "allocated") <=> (f \notin free)

\* C14 (alignment): in every state, every block of free list[order] has a head
\* frame that is a multiple of 2^order; and insert_free_block called with a
\* frame that is not aligned to the order, or with an order outside
\* [0, LastOrder], halts and leaves every list as it was.
C14_Alignment ==
    /\ \A o \in Orders : \A b \in Blocks(Cur, o) : block_aligned(o, b)
    /\ fault = "none" =>
           \A o \in (0 - 1)..(LastOrder + 1) : \A b \in Frames :
               (IF o \in Orders THEN ~block_aligned(o, b) ELSE TRUE) =>
                   LET r == insert_free_block(Cur, o, b)
                   IN  r.fault = "assert" /\ Lists(r) = Lists(Cur)

\* C14's case: with blocks in two free lists, free_pages was handed a frame
\* that is not aligned to a valid order and the kernel halted in
\* insert_free_block.
C14_Witness ==
    /\ last.op = "free_pages"
    /\ last.y \in Orders
    /\ ~block_aligned(last.y, last.x)
    /\ fault = "assert"
    /\ Cardinality({o \in Orders : Blocks(Cur, o) # {}}) >= 2

\* C15 (I1): in every state, each block head is linked at most once over all
\* the free lists: no head is in two lists, none is twice in one list, and the
\* chain from every list head ends at nullptr.
C15_HeadOnce ==
    LET ls == Lists(Cur)
    IN  /\ \A o \in Orders : Len(ls[o]) = Cardinality(Range(ls[o]))
        /\ \A o \in Orders : Len(ls[o]) <= NumFrames
        /\ \A o1 \in Orders : \A o2 \in Orders :
               o1 # o2 => Range(ls[o1]) \cap Range(ls[o2]) = {}

\* C15's case: allocate_pages(0) has split a block of order 2 or more down to
\* order 0, moving its head through the lists, while another block is held.
C15_Witness ==
    /\ Returned("allocate_pages")
    /\ last.x = 0
    /\ last.ret # nullptr
    /\ last.ret + 1 \in Blocks(Cur, 0)
    /\ last.ret + 2 \in Blocks(Cur, 1)
    /\ Cardinality(allocated) >= 2

\* C16 (invalid order): allocate_pages(order) with order < 0 or order >
\* LastOrder returns nullptr and leaves every free list, total_free_ and every
\* page descriptor as it was.
C16_InvalidOrder ==
    [][(last'.op = "allocate_pages" /\ last'.x \notin Orders) =>
           /\ last'.ret = nullptr
           /\ Cur' = Cur
           /\ allocated' = allocated]_vars

\* C16's case: allocate_pages(-1) has returned nullptr while free list 0 holds
\* a block, and a block is held.
C16_Witness ==
    /\ Returned("allocate_pages")
    /\ last.x < 0
    /\ last.ret = nullptr
    /\ Blocks(Cur, 0) # {}
    /\ allocated # {}

\* The <<head, order>> of the blocks that are in the free lists of b and not in
\* those of a.
BlocksAdded(a, b) ==
    {h \in Frames \X Orders : h[1] \in Blocks(b, h[2]) \ Blocks(a, h[2])}

\* C17 (insert_pages terminates and tiles): every insert_pages(range_start,
\* page_count), page_count >= 0, returns; the blocks it has inserted are
\* pairwise disjoint, together cover every frame of range_start ..
\* range_start + page_count - 1 and no other frame, and it removes no block.
C17_InsertTiles ==
    [][last'.op = "insert_pages" =>
           LET added == BlocksAdded(Cur, Cur')
           IN  /\ fault' = "none"
               /\ \A g \in added : \A h \in added :
                      g # h => BlockFrames(g[1], g[2]) \cap BlockFrames(h[1], h[2]) = {}
               /\ UNION {BlockFrames(h[1], h[2]) : h \in added} =
                      last'.x..(last'.x + last'.y - 1)
               /\ \A o \in Orders : Blocks(Cur, o) \subseteq Blocks(Cur', o)]_vars

\* C17's case: insert_pages has returned from a range of at least five pages
\* that does not start at frame 0, with free and held blocks around it, and
\* has put blocks into three free lists.
C17_Witness ==
    /\ Returned("insert_pages")
    /\ last.x > 0
    /\ last.y >= 5
    /\ allocated # {}
    /\ Cardinality({o \in Orders :
           \E b \in Blocks(Cur, o) : b \in last.x..(last.x + last.y - 1)}) >= 3

\* From free_pages's merge loop at `order` on: every buddy that passes the test
\* on its tag and alignment, and so is handed to remove_free_block, is at that
\* moment a block of free list `order`.
RECURSIVE MergeSound(_, _, _)
MergeSound(a, block_start, order) ==
    IF a.fault # "none" \/ order >= LastOrder THEN TRUE
    ELSE LET buddy == BuddyPfn(block_start, order)
         IN  IF a.state_[buddy] # "free" \/ ~block_aligned(order, buddy) THEN TRUE
             ELSE /\ buddy \in Blocks(a, order)
                  /\ MergeSound(merge_buddies(a, order, block_start), block_start, order + 1)

\* C18 (merge only with a free buddy): free_pages merges at order j, and hands
\* the buddy to remove_free_block, only when the buddy's head is in free list
\* j; a buddy whose tag reads free while it heads a smaller block, or whose
\* tag is stale, is not merged and not handed to remove_free_block.
C18_MergeOnlyFreeBuddy ==
    [][last'.op = "free_pages" =>
           MergeSound(insert_free_block([Cur EXCEPT !.state_[last'.x] = "free"],
                                        last'.y, last'.x),
                      last'.x, last'.y)]_vars

\* C19 (split_block): in every state and for every block b of free list
\* `order`, 1 <= order <= LastOrder, split_block(order, b) returns; b is no
\* longer in list[order], list[order - 1] has gained exactly the two blocks at
\* b and b + 2^(order - 1), the other lists are unchanged, and total_free_ and
\* every page state are unchanged.
C19_SplitEffect ==
    fault = "none" =>
        \A order \in 1..LastOrder : \A b \in Blocks(Cur, order) :
            LET r == split_block(Cur, order, b)
                halves == {b, b + pages_per_block(order - 1)}
            IN  /\ r.fault = "none"
                /\ Blocks(r, order) = Blocks(Cur, order) \ {b}
                /\ halves \cap Blocks(Cur, order - 1) = {}
                /\ Blocks(r, order - 1) = Blocks(Cur, order - 1) \cup halves
                /\ Len(ListOf(r, order - 1)) = Len(ListOf(Cur, order - 1)) + 2
                /\ \A o \in Orders \ {order, order - 1} : ListOf(r, o) = ListOf(Cur, o)
                /\ r.total_free_ = total_free_
                /\ r.state_ = state_

\* C19's case: allocate_pages has split blocks on its way down, list[order - 1]
\* of a block that can be split next already holds a block, and a block is
\* held.
C19_Witness ==
    /\ Returned("allocate_pages")
    /\ last.ret # nullptr
    /\ last.ret + pages_per_block(last.x) \in Blocks(Cur, last.x)
    /\ \E order \in 2..LastOrder :
          Blocks(Cur, order) # {} /\ Blocks(Cur, order - 1) # {}

\* The order remove_pages computes for the block at start_pfn.
RemoveOrder(a, start_pfn) ==
    IF a.free_block_size_[start_pfn] > 0
      THEN SizeOrder(0, a.free_block_size_[start_pfn])
      ELSE AlignOrder(0, start_pfn)

Ascending(q) ==
    \A i \in 1..(Len(q) - 1) : q[i] < q[i + 1]

\* q with b put before its first entry that is greater than b.
PutBefore(q, b) ==
    LET k == CHOOSE i \in 1..(Len(q) + 1) :
                 /\ \A j \in 1..(i - 1) : ~(q[j] > b)
                 /\ i <= Len(q) => q[i] > b
    IN  SubSeq(q, 1, k - 1) \o <<b>> \o SubSeq(q, k, Len(q))

\* q without its entries equal to b, the others in their order.
Without(q, b) ==
    SelectSeq(q, LAMBDA x : x # b)

\* C21 (I3): in every state, every free list is strictly ascending by head
\* frame from its head to its tail; insert_free_block links the new block
\* before the first entry with a greater frame number, and remove_free_block
\* leaves the remaining entries in their order; neither touches another list.
C21_Sorted ==
    /\ \A o \in Orders : Ascending(ListOf(Cur, o))
    /\ fault = "none" =>
           LET ls == Lists(Cur)
               heads == UNION {Range(ls[o]) : o \in Orders}
           IN  \A o \in Orders :
                   /\ \A b \in Frames \ heads :
                          block_aligned(o, b) =>
                              LET r == insert_free_block(Cur, o, b)
                              IN  /\ r.fault = "none"
                                  /\ Lists(r) = [ls EXCEPT ![o] = PutBefore(ls[o], b)]
                   /\ \A b \in Range(ls[o]) :
                          LET r == remove_free_block(Cur, o, b)
                          IN  /\ r.fault = "none"
                              /\ Lists(r) = [ls EXCEPT ![o] = Without(ls[o], b)]

\* C21's case: free_pages has linked the freed block into its list ahead of an
\* entry with a greater frame number, and that list has an entry behind which
\* a block could be linked.
C21_Witness ==
    /\ Returned("free_pages")
    /\ last.x \in Blocks(Cur, last.y)
    /\ \E b \in Blocks(Cur, last.y) : b > last.x
    /\ \E o \in Orders : Len(ListOf(Cur, o)) >= 2 /\ o # last.y

\* The blocks handed out are pairwise disjoint and disjoint from every block
\* of every free list.
NoDoubleAllocation ==
    /\ \A g \in allocated : \A h \in allocated :
           g # h => BlockFrames(g[1], g[2]) \cap BlockFrames(h[1], h[2]) = {}
    /\ AllocatedFrames \cap FreeFrames(Cur) = {}

\* C22 (no double allocation): a block allocate_pages(k) returns covers no
\* frame of a block that is still handed out, and after every call of a
\* sequence of insert_pages, allocate_pages and matching free_pages the blocks
\* handed out and not yet freed are disjoint from each other and from every
\* block in any free list.
C22_NoDoubleAllocation ==
    [][/\ (last'.op = "allocate_pages" /\ last'.ret # nullptr) =>
              BlockFrames(last'.ret, last'.x) \cap AllocatedFrames = {}
       /\ NoDoubleAllocation']_vars

\* C22's case: allocate_pages has returned a block while a block of another
\* order is held and blocks are free.
C22_Witness ==
    /\ Returned("allocate_pages")
    /\ last.ret # nullptr
    /\ \E h \in allocated : h[2] # last.x
    /\ FreeFrames(Cur) # {}

\* The allocator b has the free lists and the total_free_ of the current state,
\* and the kernel has not halted.
Restored(b) ==
    /\ b.fault = "none"
    /\ Lists(b) = Lists(Cur)
    /\ b.total_free_ = total_free_

\* C23 (allocate/free round trip): from a state in which no free list holds a
\* block together with its buddy, one or two successful allocate_pages calls
\* followed by free_pages of every returned block at its order, in either
\* order of the frees, leave every free list and total_free_ as they were
\* before the first allocation.
C23_AllocFreeRoundTrip ==
    (/\ fault = "none"
     /\ \A k \in 0..(LastOrder - 1) : \A b \in Blocks(Cur, k) :
            BuddyPfn(b, k) \notin Blocks(Cur, k)) =>
        \A k1 \in Orders :
            LET r1 == allocate_pages(Cur, k1)
            IN  r1.ret # nullptr =>
                    /\ Restored(free_pages(r1.a, r1.ret, k1))
                    /\ \A k2 \in Orders :
                           LET r2 == allocate_pages(r1.a, k2)
                           IN  r2.ret # nullptr =>
                                   /\ Restored(free_pages(free_pages(r2.a, r1.ret, k1),
                                                          r2.ret, k2))
                                   /\ Restored(free_pages(free_pages(r2.a, r2.ret, k2),
                                                          r1.ret, k1))

====
